---- MODULE Spec2Model ----
(***************************************************************************)
(* Model of the Bank of China exchange-rate bot's rate service:            *)
(*   app/core/config.py            Settings (environment -> configuration)  *)
(*   app/services/exchange_rate.py CACHE_TTL, fetch_and_parse_rate_data     *)
(*                                 (behind aiocache's @cached decorator     *)
(*                                 over a SimpleMemoryCache), and           *)
(*                                 _parse_exchange_rate_data and            *)
(*                                 get_exchange_rate                        *)
(*                                                                         *)
(* Conventions.  Text is a sequence of one-character strings.  Python's    *)
(* None is the empty sequence and a present value x is <<x>>.  A Python    *)
(* dict is a function; {} is the function with the empty domain.  A float  *)
(* read from a decimal text is the exact decimal [m, e] = m / 10^e with    *)
(* trailing zeros removed.  Time is in seconds.                            *)
(***************************************************************************)
EXTENDS Integers, Sequences, FiniteSets, TLC

VARIABLES
    env,        \* os.environ["CACHE_TIMEOUT"]: None (unset) or <<text>>
    phase,      \* "import" before the modules are imported, then "running" or "failed"
    settings,   \* the Settings object (attribute name -> value); {} before import
    CACHE_TTL,  \* exchange_rate.CACHE_TTL, seconds; 0 before import
    now,        \* the clock, seconds
    cache,      \* SimpleMemoryCache._cache[key]: None or <<value>>
    handler,    \* SimpleMemoryCache._handlers[key]: None or <<deadline of the call_later timer>>
    pc,         \* per caller: "idle" or "fetching" (suspended in client.get)
    result,     \* per caller: None or <<outcome of its last call>>
    installs,   \* history: the entries written to the cache whose TTL has not yet run out
    names,      \* os.environ["CURRENCY_NAMES"] as _parse_dict reads it: <<code, name>> pairs
    page,       \* get_exchange_rate: the document its fetch reads
    stage,      \* get_exchange_rate: "off" (no call), "fetch", "convert", "done", "back"
    fetched,    \* get_exchange_rate: None or <<what fetch_and_parse_rate_data gave>>
    answer,     \* get_exchange_rate: the requests made of one table and what each gave
    redact,     \* settings.REDACT_USER_DATA
    exchange_rate_cache,  \* setup._exchange_rate_cache
    update,     \* telegram_webhook: None or <<the update of the last request>>
    logged,     \* telegram_webhook: None or <<the update as it was logged>>
    sent,       \* the messages send_message sent while the last update was handled
    response,   \* telegram_webhook: None, or <<how the last request ended>>
    calls       \* the handler at work: what its calls of fetch_and_parse_rate_data gave so far

cacheVars == <<env, phase, settings, CACHE_TTL, now, cache, handler, pc, result, installs>>
rateVars == <<names, page, stage, fetched, answer>>
botVars == <<redact, exchange_rate_cache, update, logged, sent, response, calls>>
vars == <<cacheVars, rateVars, botVars>>

(***************************************************************************)
(* Bounds of the model.                                                    *)
(***************************************************************************)
NumCallers == 2
MaxTime == 900
TickStep == 300

Callers == 1..NumCallers

(***************************************************************************)
(* Python values.                                                          *)
(***************************************************************************)
None == <<>>
Some(x) == <<x>>
EmptyDict == [k \in {} |-> 0]
DictSet(d, k, v) == [x \in (DOMAIN d) \cup {k} |-> IF x = k THEN v ELSE d[x]]
Min(a, b) == IF a <= b THEN a ELSE b
Max(a, b) == IF a >= b THEN a ELSE b

(***************************************************************************)
(* str.strip(), int() and float() on the texts the model uses: blanks,     *)
(* an optional sign, decimal digits and at most one decimal point.         *)
(***************************************************************************)
RECURSIVE LStrip(_)
LStrip(s) == IF s # <<>> /\ Head(s) = " " THEN LStrip(Tail(s)) ELSE s

RECURSIVE RStrip(_)
RStrip(s) == IF s # <<>> /\ s[Len(s)] = " " THEN RStrip(SubSeq(s, 1, Len(s) - 1)) ELSE s

Strip(s) == RStrip(LStrip(s))

Digits == {"0", "1", "2", "3", "4", "5", "6", "7", "8", "9"}

DigitVal(c) ==
    CASE c = "0" -> 0 [] c = "1" -> 1 [] c = "2" -> 2 [] c = "3" -> 3 [] c = "4" -> 4
      [] c = "5" -> 5 [] c = "6" -> 6 [] c = "7" -> 7 [] c = "8" -> 8 [] c = "9" -> 9

RECURSIVE DigitsVal(_)
DigitsVal(s) ==
    IF s = <<>> THEN 0
    ELSE 10 * DigitsVal(SubSeq(s, 1, Len(s) - 1)) + DigitVal(s[Len(s)])

Unsigned(s) == IF s # <<>> /\ Head(s) \in {"+", "-"} THEN Tail(s) ELSE s
SignOf(s) == IF s # <<>> /\ Head(s) = "-" THEN -1 ELSE 1

\* int(text) succeeds
IntOk(s) ==
    LET u == Unsigned(Strip(s))
    IN  u # <<>> /\ \A i \in 1..Len(u) : u[i] \in Digits

\* int(text)
IntVal(s) == SignOf(Strip(s)) * DigitsVal(Unsigned(Strip(s)))

DotsOf(u) == {i \in 1..Len(u) : u[i] = "."}

\* float(text) succeeds (otherwise ValueError)
FloatOk(s) ==
    LET u == Unsigned(Strip(s))
    IN  /\ Cardinality(DotsOf(u)) <= 1
        /\ \A i \in (1..Len(u)) \ DotsOf(u) : u[i] \in Digits
        /\ Len(u) - Cardinality(DotsOf(u)) >= 1

RECURSIVE Normalize(_)
Normalize(d) ==
    IF d.e > 0 /\ d.m % 10 = 0 THEN Normalize([m |-> d.m \div 10, e |-> d.e - 1]) ELSE d

\* float(text): the decimal m / 10^e
FloatVal(s) ==
    LET t == Strip(s)
        u == Unsigned(t)
        dot == IF DotsOf(u) = {} THEN Len(u) + 1 ELSE CHOOSE i \in DotsOf(u) : TRUE
        whole == SubSeq(u, 1, dot - 1)
        frac == SubSeq(u, dot + 1, Len(u))
    IN  Normalize([m |-> SignOf(t) * DigitsVal(whole \o frac), e |-> Len(frac)])

(***************************************************************************)
(* Configuration: currency codes and their display names                   *)
(* (Settings.CURRENCY_NAMES, read from the environment).                    *)
(***************************************************************************)
USD == <<"U", "S", "D">>
EUR == <<"E", "U", "R">>
CNY == <<"C", "N", "Y">>
NameUSD == <<"M", "e", "i", "Y", "u", "a", "n">>
NameEUR == <<"O", "u", "Y", "u", "a", "n">>
NameCNY == <<"R", "e", "n", "M", "i", "n", "B", "i">>
NameJPY == <<"R", "i", "Y", "u", "a", "n">>

AUD == <<"A", "U", "D">>
JPY == <<"J", "P", "Y">>

\* The configurations: every supported currency has its own name; and one
\* in which AUD is given the name USD already has.  Codes are unique.
NamesStd == <<<<USD, NameUSD>>, <<EUR, NameEUR>>, <<CNY, NameCNY>>>>
NamesDup == <<<<USD, NameUSD>>, <<EUR, NameEUR>>, <<CNY, NameCNY>>, <<AUD, NameUSD>>>>
NameChoices == {NamesStd, NamesDup}

\* the last position of the pairs at which field k has value v
LastAt(pairs, k, v) ==
    CHOOSE i \in 1..Len(pairs) :
        pairs[i][k] = v /\ \A j \in (i + 1)..Len(pairs) : pairs[j][k] # v

\* Settings.CURRENCY_NAMES: result[key] = val for each item, in order
CURRENCY_NAMES ==
    [c \in {names[i][1] : i \in 1..Len(names)} |-> names[LastAt(names, 1, c)][2]]

\* reverse_currency_map = {v: k for k, v in currency_names.items()}
ReverseCurrencyMap ==
    [n \in {names[i][2] : i \in 1..Len(names)} |-> names[LastAt(names, 2, n)][1]]

(***************************************************************************)
(* The documents the rate source can serve.  A document is the list of its *)
(* <table> elements; a table has a bgcolor and rows; a row has its <th>    *)
(* and its <td> texts.                                                     *)
(***************************************************************************)
HdrCurrencyName == <<"C", "u", "r", "r", "e", "n", "c", "y", " ", "N", "a", "m", "e">>
HdrCashSelling == <<"C", "a", "s", "h", " ", "S", "e", "l", "l", "i", "n", "g", " ", "R", "a", "t", "e">>
HdrPubTime == <<"P", "u", "b", " ", "T", "i", "m", "e">>
HdrBuying == <<"B", "u", "y", "i", "n", "g", " ", "R", "a", "t", "e">>
Rate72767 == <<"7", "2", "7", ".", "6", "7">>
Rate82488 == <<" ", "8", "2", "4", ".", "8", "8", " ">>
Rate7281 == <<"7", "2", "8", ".", "1", "0">>
RateNA == <<"n", "/", "a">>
Rate502 == <<"5", ".", "0", "2">>
Time1 == <<"2", "0", ":", "5", "8">>
Time2 == <<"2", "1", ":", "0", "8">>

RateTableColor == "#EAEAEA"

HeaderRow == [th |-> <<HdrCurrencyName, HdrBuying, HdrCashSelling, HdrPubTime>>, td |-> <<>>]
DataRow(name, rate, time) == [th |-> <<>>, td |-> <<name, <<>>, rate, time>>]
LayoutTable == [bgcolor |-> "#FFFFFF", rows |-> <<>>]

DocNoTable == <<LayoutTable>>
DocNoColumn ==
    <<LayoutTable,
      [bgcolor |-> RateTableColor,
       rows |-> <<[th |-> <<HdrCurrencyName, HdrBuying, HdrPubTime>>, td |-> <<>>],
                  [th |-> <<>>, td |-> <<NameUSD, Rate72767, Time1>>]>>]>>
DocHeaderOnly == <<LayoutTable, [bgcolor |-> RateTableColor, rows |-> <<HeaderRow>>]>>
DocA ==
    <<LayoutTable,
      [bgcolor |-> RateTableColor,
       rows |-> <<HeaderRow,
                  DataRow(NameUSD, Rate72767, Time1),
                  DataRow(NameEUR, Rate82488, Time1)>>]>>
DocB ==
    <<[bgcolor |-> RateTableColor,
       rows |-> <<HeaderRow,
                  DataRow(NameUSD, Rate7281, Time2),
                  DataRow(NameEUR, RateNA, Time2),
                  [th |-> <<>>, td |-> <<NameJPY>>],
                  DataRow(NameJPY, Rate502, Time1)>>]>>

Docs == [d \in {"noTable", "noColumn", "headerOnly", "A", "B"} |->
            CASE d = "noTable" -> DocNoTable
              [] d = "noColumn" -> DocNoColumn
              [] d = "headerOnly" -> DocHeaderOnly
              [] d = "A" -> DocA
              [] d = "B" -> DocB]

(***************************************************************************)
(* _parse_exchange_rate_data                                               *)
(***************************************************************************)
\* the first table with bgcolor "#EAEAEA", or None
RECURSIVE FindRateTable(_)
FindRateTable(tables) ==
    IF tables = <<>> THEN None
    ELSE IF Head(tables).bgcolor = RateTableColor THEN Some(Head(tables))
    ELSE FindRateTable(Tail(tables))

\* an index that is 0, not -1, for a header that is absent
HeaderIndexDefaultZero(headers, name) ==
    IF \E i \in 1..Len(headers) : headers[i] = name
    THEN (CHOOSE i \in 1..Len(headers) :
              headers[i] = name /\ \A j \in 1..(i - 1) : headers[j] # name) - 1
    ELSE 0

\* headers.index(name) if name in headers else -1   (0-based)
HeaderIndex(headers, name) ==
    IF \E i \in 1..Len(headers) : headers[i] = name
    THEN (CHOOSE i \in 1..Len(headers) :
              headers[i] = name /\ \A j \in 1..(i - 1) : headers[j] # name) - 1
    ELSE -1

\* a loop body that gives up the rates read so far at a non-numeric rate
ParseRowAbortOnBad(acc, cells, currency_idx, cash_selling_idx, time_idx) ==
    IF Len(cells) <= Max(currency_idx, cash_selling_idx) THEN acc
    ELSE LET currency_name == Strip(cells[currency_idx + 1])
             rate_text == Strip(cells[cash_selling_idx + 1])
         IN  IF currency_name = <<>> THEN acc
             ELSE IF rate_text # <<>> /\ FloatOk(rate_text)
             THEN [currencies |-> DictSet(acc.currencies, currency_name, FloatVal(rate_text)),
                   pub_time |-> acc.pub_time]
             ELSE [currencies |-> EmptyDict, pub_time |-> acc.pub_time]

\* a loop body that stores a rate under the display name only
ParseRowNameOnly(acc, cells, currency_idx, cash_selling_idx, time_idx) ==
    IF Len(cells) <= Max(currency_idx, cash_selling_idx) THEN acc
    ELSE LET currency_name == Strip(cells[currency_idx + 1])
         IN  IF currency_name = <<>> THEN acc
             ELSE LET pub_time ==
                          IF acc.pub_time = None /\ Len(cells) > time_idx
                          THEN Some(Strip(cells[time_idx + 1]))
                          ELSE acc.pub_time
                      rate_text == Strip(cells[cash_selling_idx + 1])
                  IN  IF rate_text # <<>> /\ FloatOk(rate_text)
                      THEN [currencies |-> DictSet(acc.currencies, currency_name,
                                                   FloatVal(rate_text)),
                            pub_time |-> pub_time]
                      ELSE [currencies |-> acc.currencies, pub_time |-> pub_time]

\* one pass of the loop over the data rows; acc = [currencies, pub_time]
ParseRow(acc, cells, currency_idx, cash_selling_idx, time_idx) ==
    IF Len(cells) <= Max(currency_idx, cash_selling_idx) THEN acc
    ELSE LET currency_name == Strip(cells[currency_idx + 1])
         IN  IF currency_name = <<>> THEN acc
             ELSE LET pub_time ==
                          IF acc.pub_time = None /\ Len(cells) > time_idx
                          THEN Some(Strip(cells[time_idx + 1]))
                          ELSE acc.pub_time
                      rate_text == Strip(cells[cash_selling_idx + 1])
                      byCode ==
                          IF currency_name \in DOMAIN ReverseCurrencyMap
                          THEN DictSet(acc.currencies,
                                       ReverseCurrencyMap[currency_name],
                                       FloatVal(rate_text))
                          ELSE acc.currencies
                  IN  IF rate_text # <<>> /\ FloatOk(rate_text)
                      THEN [currencies |-> DictSet(byCode, currency_name, FloatVal(rate_text)),
                            pub_time |-> pub_time]
                      ELSE [currencies |-> acc.currencies, pub_time |-> pub_time]

RECURSIVE ParseRows(_, _, _, _, _)
ParseRows(acc, rows, currency_idx, cash_selling_idx, time_idx) ==
    IF rows = <<>> THEN acc
    ELSE ParseRows(ParseRow(acc, Head(rows).td, currency_idx, cash_selling_idx, time_idx),
                   Tail(rows), currency_idx, cash_selling_idx, time_idx)

\* the dict the parser returns: {} or {"currencies": ..., "last_updated": ...}
ParseExchangeRateData(doc) ==
    LET found == FindRateTable(doc)
    IN  IF found = None THEN EmptyDict
        ELSE LET rows == found[1].rows
             IN  IF rows = <<>> THEN EmptyDict
                 ELSE LET headers == [i \in 1..Len(rows[1].th) |-> Strip(rows[1].th[i])]
                          currency_idx == HeaderIndex(headers, HdrCurrencyName)
                          cash_selling_idx == HeaderIndex(headers, HdrCashSelling)
                          time_idx == HeaderIndex(headers, HdrPubTime)
                      IN  IF currency_idx = -1 \/ cash_selling_idx = -1 \/ time_idx = -1
                          THEN EmptyDict
                          ELSE LET acc == ParseRows([currencies |-> EmptyDict, pub_time |-> None],
                                                    Tail(rows), currency_idx,
                                                    cash_selling_idx, time_idx)
                               IN  [currencies |-> acc.currencies,
                                    last_updated |-> acc.pub_time]

(***************************************************************************)
(* Settings.__init__ and the module-level CACHE_TTL.                       *)
(***************************************************************************)
DefaultCacheTimeout == <<"5">>
DefaultTtlMinutes == 10
SecondsPerMinute == 60

\* The values CACHE_TIMEOUT takes in the environment: unset, "", "0", "-1", "1", "x".
EnvChoices == {None, Some(<<>>), Some(<<"0">>), Some(<<"-", "1">>), Some(<<"1">>), Some(<<"x">>)}

\* os.environ.get("CACHE_TIMEOUT", "5") or "5"
CacheTimeoutText(e) ==
    LET got == IF e = None THEN DefaultCacheTimeout ELSE e[1]
    IN  IF got = <<>> THEN DefaultCacheTimeout ELSE got

\* Settings() returns (int() does not raise ValueError)
SettingsOk(e) == IntOk(CacheTimeoutText(e))

\* the Settings object
SettingsInit(e) == [CACHE_TIMEOUT |-> IntVal(CacheTimeoutText(e))]

\* getattr(obj, name, default)
GetAttr(obj, name, default) == IF name \in DOMAIN obj THEN obj[name] ELSE default

\* CACHE_TTL = int(getattr(settings, "CACHE_TTL_MINUTES", 10)) * 60
CacheTtlOf(s) == GetAttr(s, "CACHE_TTL_MINUTES", DefaultTtlMinutes) * SecondsPerMinute

(***************************************************************************)
(* The body of fetch_and_parse_rate_data: what the HTTP GET ends in, and   *)
(* what the body then returns or raises.                                   *)
(***************************************************************************)
HttpFailures == {"timeout", "status", "network"}

Outcomes ==
    [http : HttpFailures, doc : {"none"}] \cup [http : {"ok"}, doc : DOMAIN Docs]

NoOutcome == [http |-> "none", doc |-> "none"]

Return(v) == [kind |-> "return", value |-> v, msg |-> "none"]
Raise(m) == [kind |-> "raise", value |-> None, msg |-> m]

\* the body without the "if not exchange_data: raise" check
FetchBodyNoEmptyCheck(o) ==
    CASE o.http = "timeout" -> Raise("timed out")
      [] o.http = "status" -> Raise("HTTP error")
      [] o.http = "network" -> Raise("Network error")
      [] o.http = "ok" -> Return(<<ParseExchangeRateData(Docs[o.doc]), None, None>>)

\* the body, for a GET that ends as h and, when it ends well, reads document d
FetchPage(h, d) ==
    CASE h = "timeout" -> Raise("timed out")
      [] h = "status" -> Raise("HTTP error")
      [] h = "network" -> Raise("Network error")
      [] h = "ok" ->
            LET exchange_data == ParseExchangeRateData(d)
            IN  IF DOMAIN exchange_data = {}
                THEN Raise("Error fetching or parsing exchange rate data")
                ELSE Return(<<exchange_data, None, None>>)

FetchBody(o) == FetchPage(o.http, IF o.http = "ok" THEN Docs[o.doc] ELSE <<>>)

(***************************************************************************)
(* @cached(ttl=CACHE_TTL, cache=SimpleMemoryCache): read the key, on a     *)
(* miss run the body, write what it returns with a call_later timer that   *)
(* deletes the key after ttl seconds.                                      *)
(***************************************************************************)
\* a read that never finds the key
GetFromCacheMiss == None

\* cached.get_from_cache: the stored value, or None
GetFromCache == cache

\* SimpleMemoryCache._set: the timer armed for a write at the current time
TimerFor(ttl) == IF ttl # 0 THEN Some(now + ttl) ELSE None

\* what the caller of fetch_and_parse_rate_data gets
Outcome(r, hit, o) ==
    [kind |-> r.kind, value |-> r.value, msg |-> r.msg, hit |-> hit, outcome |-> o]

Live(s) == {i \in s : i.expires > now}

Init ==
    /\ env \in EnvChoices
    /\ phase = "import"
    /\ settings = EmptyDict
    /\ CACHE_TTL = 0
    /\ now = 0
    /\ cache = None
    /\ handler = None
    /\ pc = [p \in Callers |-> "idle"]
    /\ result = [p \in Callers |-> None]
    /\ installs = {}
    /\ names = NamesStd
    /\ page = None
    /\ stage = "off"
    /\ fetched = None
    /\ answer = None
    /\ redact = TRUE
    /\ exchange_rate_cache = EmptyDict
    /\ update = None
    /\ logged = None
    /\ sent = <<>>
    /\ response = None
    /\ calls = <<>>

\* import app.core.config, app.services.exchange_rate
Import ==
    /\ phase = "import"
    /\ IF SettingsOk(env)
       THEN /\ settings' = SettingsInit(env)
            /\ CACHE_TTL' = CacheTtlOf(settings')
            /\ phase' = "running"
       ELSE /\ phase' = "failed"
            /\ UNCHANGED <<settings, CACHE_TTL>>
    /\ UNCHANGED <<env, now, cache, handler, pc, result, installs>>
    /\ UNCHANGED <<rateVars, botVars>>

\* a call of fetch_and_parse_rate_data(url) up to its first suspension
Lookup(p) ==
    /\ phase = "running"
    /\ pc[p] = "idle"
    /\ LET value == GetFromCache
       IN  IF value # None
           THEN /\ result' = [result EXCEPT ![p] = Some(Outcome(Return(value[1]), TRUE, NoOutcome))]
                /\ pc' = pc
           ELSE /\ result' = [result EXCEPT ![p] = None]
                /\ pc' = [pc EXCEPT ![p] = "fetching"]
    /\ UNCHANGED <<env, phase, settings, CACHE_TTL, now, cache, handler, installs>>
    /\ UNCHANGED <<rateVars, botVars>>

\* the GET of caller p ends in outcome o: the body finishes, the decorator
\* writes a returned value to the cache, the caller resumes
Complete(p, o) ==
    /\ phase = "running"
    /\ pc[p] = "fetching"
    /\ LET r == FetchBody(o)
       IN  /\ result' = [result EXCEPT ![p] = Some(Outcome(r, FALSE, o))]
           /\ IF r.kind = "return"
              THEN /\ cache' = Some(r.value)
                   /\ handler' = TimerFor(CACHE_TTL)
                   /\ installs' = Live(installs) \cup
                                     {[data |-> r.value[1], expires |-> now + CACHE_TTL]}
              ELSE UNCHANGED <<cache, handler, installs>>
    /\ pc' = [pc EXCEPT ![p] = "idle"]
    /\ UNCHANGED <<env, phase, settings, CACHE_TTL, now>>
    /\ UNCHANGED <<rateVars, botVars>>

\* the call_later timer fires: SimpleMemoryCache.__delete
Expire ==
    /\ handler # None
    /\ handler[1] <= now
    /\ cache' = None
    /\ handler' = None
    /\ UNCHANGED <<env, phase, settings, CACHE_TTL, now, pc, result, installs>>
    /\ UNCHANGED <<rateVars, botVars>>

\* time passes, up to the next timer
Tick ==
    /\ phase = "running"
    /\ now < MaxTime
    /\ handler # None => handler[1] > now
    /\ now' = IF handler # None THEN Min(now + TickStep, handler[1]) ELSE now + TickStep
    /\ installs' = {i \in installs : i.expires > now'}
    /\ UNCHANGED <<env, phase, settings, CACHE_TTL, cache, handler, pc, result>>
    /\ UNCHANGED <<rateVars, botVars>>

Next ==
    \/ Import
    \/ \E p \in Callers : Lookup(p)
    \/ \E p \in Callers, o \in Outcomes : Complete(p, o)
    \/ Expire
    \/ Tick

Spec == Init /\ [][Next]_vars

(***************************************************************************)
(* get_exchange_rate.  Rates are floats; the model computes with the exact *)
(* fraction [n, d] = n / d in lowest terms, d > 0.                         *)
(***************************************************************************)
Abs(x) == IF x < 0 THEN -x ELSE x

RECURSIVE Gcd(_, _)
Gcd(a, b) == IF b = 0 THEN a ELSE Gcd(b, a % b)

RECURSIVE Pow10(_)
Pow10(e) == IF e = 0 THEN 1 ELSE 10 * Pow10(e - 1)

\* n / d, d # 0, in lowest terms
Frac(n, d) ==
    LET g == Gcd(Abs(n), Abs(d))
        sg == IF d < 0 THEN -1 ELSE 1
    IN  [n |-> sg * (n \div g), d |-> sg * (d \div g)]

\* the float read from a decimal text, as a fraction
DecToFrac(x) == Frac(x.m, Pow10(x.e))

\* a / b, b # 0
FracDiv(a, b) == Frac(a.n * b.d, a.d * b.n)

\* float == 0
IsZero(x) == x.m = 0

\* the quoted rate itself, not divided by 100
RateToCnyNoScale(from_rate) == DecToFrac(from_rate)

\* from_rate / 100
RateToCny(from_rate) == FracDiv(DecToFrac(from_rate), Frac(100, 1))

\* 1 / to_rate in place of 100 / to_rate
RateFromCnyNoScale(to_rate) == FracDiv(Frac(1, 1), DecToFrac(to_rate))

\* 100 / to_rate
RateFromCny(to_rate) == FracDiv(Frac(100, 1), DecToFrac(to_rate))

\* from_rate / to_rate in place of to_rate / from_rate
CrossRateInverted(from_rate, to_rate) == FracDiv(DecToFrac(from_rate), DecToFrac(to_rate))

\* to_rate / from_rate
CrossRate(from_rate, to_rate) == FracDiv(DecToFrac(to_rate), DecToFrac(from_rate))

\* currency_names.get(code)
NameOf(code) == IF code \in DOMAIN CURRENCY_NAMES THEN CURRENCY_NAMES[code] ELSE None

\* a lookup by code only
FindRateCodeOnly(currencies, code, name) ==
    IF code \in DOMAIN currencies THEN Some(currencies[code]) ELSE None

\* "if code in currencies ... elif name in currencies ... else": the rate, or None
FindRate(currencies, code, name) ==
    IF code \in DOMAIN currencies THEN Some(currencies[code])
    ELSE IF name \in DOMAIN currencies THEN Some(currencies[name])
    ELSE None

\* what a call gives: the value it returns and the last logger.error it made
Gave(ret, what, who) == [ret |-> ret, log |-> [what |-> what, who |-> who]]

\* the except branch: return None, False, datetime.now() + timedelta(seconds=CACHE_TTL)
Failed == Gave(<<None, Some(FALSE), Some(now + CACHE_TTL)>>, "Error getting exchange rate", <<>>)

NotFound(code) == Gave(None, "Could not find rate for", <<code>>)

\* get_exchange_rate(from_currency, to_currency), given what its fetch gave
GetExchangeRate(from_currency, to_currency, f) ==
    IF f.kind = "raise" THEN Failed
    ELSE
    LET data == f.value[1]
        is_cached == f.value[2]
        next_update == f.value[3]
    IN  IF "currencies" \notin DOMAIN data \/ DOMAIN data.currencies = {}
        THEN Gave(None, "No currency data available", <<>>)
        ELSE
        LET currencies == data.currencies
            from_currency_name == NameOf(from_currency)
            to_currency_name == NameOf(to_currency)
            from_rate == FindRate(currencies, from_currency, from_currency_name)
            to_rate == FindRate(currencies, to_currency, to_currency_name)
        IN  IF from_currency_name = <<>> \/ to_currency_name = <<>>
            THEN Gave(None, "Missing Chinese name mapping for", <<from_currency, to_currency>>)
            ELSE IF to_currency = CNY
            THEN IF from_rate = None THEN NotFound(from_currency)
                 ELSE Gave(<<Some(RateToCny(from_rate[1])), is_cached, next_update>>, "none", <<>>)
            ELSE IF from_currency = CNY
            THEN IF to_rate = None THEN NotFound(to_currency)
                 ELSE IF IsZero(to_rate[1]) THEN Failed
                 ELSE Gave(<<Some(RateFromCny(to_rate[1])), is_cached, next_update>>, "none", <<>>)
            ELSE IF from_rate = None THEN NotFound(from_currency)
                 ELSE IF to_rate = None THEN NotFound(to_currency)
                 ELSE IF IsZero(from_rate[1]) THEN Failed
                 ELSE Gave(<<Some(CrossRate(from_rate[1], to_rate[1])), is_cached, next_update>>,
                           "none", <<>>)

(***************************************************************************)
(* Calls of get_exchange_rate on the pages the source can serve: a rate    *)
(* table with one of the headers below and up to MaxRows of the rows below.*)
(***************************************************************************)
MaxRows == 3

RateZero == <<"0", ".", "0", "0">>
RateNeg == <<"-", "5">>

RowChoices ==
    {DataRow(NameUSD, Rate72767, Time1),
     DataRow(NameEUR, RateNA, Time2),
     [th |-> <<>>, td |-> <<NameJPY>>],
     DataRow(USD, RateZero, <<>>),
     DataRow(NameEUR, RateNeg, Time1),
     DataRow(NameJPY, Rate502, Time2)}

HeaderChoices ==
    {<<HdrCurrencyName, HdrBuying, HdrCashSelling, HdrPubTime>>,
     <<HdrBuying, HdrCashSelling, HdrPubTime>>,
     <<HdrCurrencyName, HdrBuying, HdrPubTime>>,
     <<HdrCurrencyName, HdrBuying, HdrCashSelling>>}

SeqsUpTo(S, n) == UNION {[1..k -> S] : k \in 0..n}

Pages ==
    {<<LayoutTable, [bgcolor |-> RateTableColor, rows |-> <<[th |-> h, td |-> <<>>]>> \o rs]>> :
        h \in HeaderChoices, rs \in SeqsUpTo(RowChoices, MaxRows)}

\* the currency codes a user asks for
CodeChoices == {USD, EUR, CNY, JPY}

RateInit ==
    /\ env = None
    /\ phase = "running"
    /\ settings = SettingsInit(env)
    /\ CACHE_TTL = CacheTtlOf(settings)
    /\ now = 0
    /\ cache = None
    /\ handler = None
    /\ pc = [p \in Callers |-> "idle"]
    /\ result = [p \in Callers |-> None]
    /\ installs = {}
    /\ names \in NameChoices
    /\ page \in Pages
    /\ stage = "fetch"
    /\ fetched = None
    /\ answer = None
    /\ redact = TRUE
    /\ exchange_rate_cache = EmptyDict
    /\ update = None
    /\ logged = None
    /\ sent = <<>>
    /\ response = None
    /\ calls = <<>>

\* get_exchange_rate: data, is_cached, next_update = await fetch_and_parse_rate_data(url)
Fetch(h) ==
    /\ stage = "fetch"
    /\ fetched' = Some([http |-> h, res |-> FetchPage(h, page)])
    /\ stage' = "convert"
    /\ UNCHANGED <<names, page, answer>>
    /\ UNCHANGED <<cacheVars, botVars>>

\* get_exchange_rate: the rest of the call
Convert(from_currency, to_currency) ==
    /\ stage = "convert"
    /\ answer' = Some([from |-> from_currency, to |-> to_currency,
                       gave |-> GetExchangeRate(from_currency, to_currency, fetched[1].res)])
    /\ stage' = "done"
    /\ UNCHANGED <<names, page, fetched>>
    /\ UNCHANGED <<cacheVars, botVars>>

\* get_exchange_rate called again, with the two currencies exchanged
ConvertBack ==
    /\ stage = "done"
    /\ answer' = Append(answer,
                        [from |-> answer[1].to, to |-> answer[1].from,
                         gave |-> GetExchangeRate(answer[1].to, answer[1].from, fetched[1].res)])
    /\ stage' = "back"
    /\ UNCHANGED <<names, page, fetched>>
    /\ UNCHANGED <<cacheVars, botVars>>

RateNext ==
    \/ \E h \in HttpFailures \cup {"ok"} : Fetch(h)
    \/ \E from_currency, to_currency \in CodeChoices : Convert(from_currency, to_currency)
    \/ ConvertBack

RateSpec == RateInit /\ [][RateNext]_vars

(***************************************************************************)
(* The bot: the startup preload, the webhook, the dispatcher and the       *)
(* command handlers.  A handler runs from one await of                     *)
(* fetch_and_parse_rate_data to the next; each of these calls goes through *)
(* the decorator's cache and is one step.                                  *)
(***************************************************************************)
\* one call through @cached with the cache holding c; a miss runs the body
\* with a GET that ends as h
CachedCall(c, h) ==
    IF c # None
    THEN [res |-> Return(c[1]), cache |-> c, wrote |-> FALSE]
    ELSE LET r == FetchPage(h, page)
         IN  IF r.kind = "return"
             THEN [res |-> r, cache |-> Some(r.value), wrote |-> TRUE]
             ELSE [res |-> r, cache |-> c, wrote |-> FALSE]

Currencies == <<"c", "u", "r", "r", "e", "n", "c", "i", "e", "s">>

\* "currencies" in data, data the tuple the fetch returned: an item equal to
\* the string.  The first item is a dict, which no string equals.
InTuple(key, data) == \E i \in 2..Len(data) : data[i] = key

\* _preload_exchange_rate_data: the new _exchange_rate_cache
Preloaded(f) ==
    IF f.res.kind = "raise" THEN exchange_rate_cache
    ELSE LET data == f.res.value
         IN  IF data # <<>> /\ InTuple(Currencies, data)
             THEN data
             ELSE exchange_rate_cache

\* str.upper(), on the letters
LowerCase == <<"a", "b", "c", "d", "e", "f", "g", "h", "i", "j", "k", "l", "m",
               "n", "o", "p", "q", "r", "s", "t", "u", "v", "w", "x", "y", "z">>
UpperCase == <<"A", "B", "C", "D", "E", "F", "G", "H", "I", "J", "K", "L", "M",
               "N", "O", "P", "Q", "R", "S", "T", "U", "V", "W", "X", "Y", "Z">>
UpperChar(c) ==
    IF \E i \in 1..Len(LowerCase) : LowerCase[i] = c
    THEN UpperCase[CHOOSE i \in 1..Len(LowerCase) : LowerCase[i] = c]
    ELSE c
Upper(text) == [i \in 1..Len(text) |-> UpperChar(text[i])]

\* a message given to send_message: what it says and the amount it shows
Msg(kind, val) == [kind |-> kind, val |-> val]

\* a handler suspended in its next call of fetch_and_parse_rate_data
Awaits == [need |-> TRUE, sent |-> <<>>, raised |-> FALSE]

\* how a handler ends: the messages it sent, whether it raised
Ended(msgs, raised) == [need |-> FALSE, sent |-> msgs, raised |-> raised]

\* amount * rate
Times(amount, rate) ==
    LET a == DecToFrac(amount) IN Frac(a.n * rate.n, a.d * rate.d)

\* "if rate:"
Truthy(rate) == rate # None /\ rate[1].n # 0

start_command == Ended(<<Msg("welcome", None)>>, FALSE)

rate_command ==
    IF Len(calls) < 1 THEN Awaits
    ELSE IF calls[1].kind = "raise" THEN Ended(<<Msg("error", None)>>, FALSE)
    ELSE LET data == calls[1].value[1]
             next_update == calls[1].value[3]
         IN  IF DOMAIN data = {} \/ "currencies" \notin DOMAIN data
                \/ DOMAIN data.currencies = {}
             THEN Ended(<<Msg("no data", None)>>, FALSE)
             ELSE IF next_update = None
             THEN Ended(<<Msg("error", None)>>, FALSE)
             ELSE Ended(<<Msg("rates", None)>>, FALSE)

\* the part convert_command and cny_convert_command share: from the call of
\* get_exchange_rate to the reply
ConvertReply(from_currency, to_currency, amount) ==
    IF Len(calls) < 1 THEN Awaits
    ELSE LET rate_info == GetExchangeRate(from_currency, to_currency, calls[1]).ret
         IN  IF Len(rate_info) # 3 THEN Ended(<<Msg("error", None)>>, FALSE)
             ELSE IF ~Truthy(rate_info[1]) THEN Ended(<<Msg("cannot convert", None)>>, FALSE)
             ELSE IF Len(calls) < 2 THEN Awaits
             ELSE IF calls[2].kind = "raise" \/ rate_info[3] = None
             THEN Ended(<<Msg("error", None)>>, FALSE)
             ELSE Ended(<<Msg("result", Some(Times(amount, rate_info[1][1])))>>, FALSE)

convert_command(args) ==
    IF Len(args) < 4 THEN Ended(<<Msg("usage", None)>>, FALSE)
    ELSE IF ~FloatOk(args[4]) THEN Ended(<<Msg("invalid amount", None)>>, FALSE)
    ELSE IF Upper(args[3]) = CNY THEN Ended(<<Msg("use cny_convert", None)>>, FALSE)
    ELSE ConvertReply(Upper(args[2]), Upper(args[3]), FloatVal(args[4]))

currency_command ==
    IF Len(calls) < 1 THEN Awaits
    ELSE IF calls[1].kind = "raise" THEN Ended(<<>>, TRUE)
    ELSE IF calls[1].value[3] = None THEN Ended(<<>>, TRUE)
    ELSE Ended(<<Msg("currencies", None)>>, FALSE)

cny_convert_command(args) ==
    IF Len(args) < 3 THEN Ended(<<Msg("usage", None)>>, FALSE)
    ELSE IF ~FloatOk(args[3]) THEN Ended(<<Msg("invalid amount", None)>>, FALSE)
    ELSE ConvertReply(Upper(args[2]), CNY, FloatVal(args[3]))

CmdStart == <<"/", "s", "t", "a", "r", "t">>
CmdRate == <<"/", "r", "a", "t", "e">>
CmdConvert == <<"/", "c", "o", "n", "v", "e", "r", "t">>
CmdCurrency == <<"/", "c", "u", "r", "r", "e", "n", "c", "y">>
CmdCnyConvert == <<"/", "c", "n", "y", "_", "c", "o", "n", "v", "e", "r", "t">>
Commands == {CmdStart, CmdRate, CmdConvert, CmdCurrency, CmdCnyConvert}

\* Dispatcher.feed_update with the handlers register_handlers registers: a
\* message whose text starts with one of the commands goes to its handler
Routed(u) == u.kind = "message" /\ u.body.args # <<>> /\ u.body.args[1] \in Commands

feed_update(u) ==
    IF ~Routed(u) THEN Ended(<<>>, FALSE)
    ELSE LET args == u.body.args
         IN  CASE args[1] = CmdStart -> start_command
               [] args[1] = CmdRate -> rate_command
               [] args[1] = CmdConvert -> convert_command(args)
               [] args[1] = CmdCurrency -> currency_command
               [] args[1] = CmdCnyConvert -> cny_convert_command(args)

\* telegram_webhook without its try/except
WebhookEndsNoCatch(raised) == IF raised THEN "raise" ELSE "success"

\* telegram_webhook: try: feed_update ... except Exception: log;
\* return {"status": "success"}
WebhookEnds(raised) == "success"

Redacted == "[REDACTED]"
RedactedId == "[REDACTED_ID]"
RedactedChatId == "[REDACTED_CHAT_ID]"

\* sanitize_user_data(update_data), update_data the dumped update
sanitize_user_data(u) ==
    IF ~redact THEN u
    ELSE IF u.kind = "message"
    THEN [u EXCEPT !.body.from_user = [first_name |-> Redacted, id |-> RedactedId],
                   !.body.chat = [first_name |-> Redacted, id |-> RedactedChatId]]
    ELSE u

\* the updates Telegram posts
UserId == "42"
FirstName == "Ann"
User == [first_name |-> FirstName, id |-> UserId]
Amount100 == <<"1", "0", "0">>
AmountZero == <<"0">>
AmountWord == <<"a", "b", "c">>
LowerUsd == <<"u", "s", "d">>
Word == <<"h", "i">>
ArgChoices ==
    {<<CmdStart>>, <<CmdRate>>, <<CmdCurrency>>, <<CmdConvert>>, <<CmdCnyConvert>>,
     <<CmdConvert, LowerUsd, EUR, Amount100>>,
     <<CmdConvert, USD, CNY, Amount100>>,
     <<CmdConvert, USD, EUR, RateNeg>>,
     <<CmdConvert, USD, EUR, AmountWord>>,
     <<CmdCnyConvert, LowerUsd, Amount100>>,
     <<CmdCnyConvert, USD, RateNeg>>,
     <<CmdCnyConvert, USD, AmountZero>>,
     <<CmdCnyConvert, JPY, Amount100>>,
     <<CmdCnyConvert, CNY, Amount100>>,
     <<CmdCnyConvert, USD, AmountWord>>,
     <<Word>>}
UpdateKinds == {"message", "edited_message", "callback_query"}
Updates ==
    {[kind |-> k, body |-> [from_user |-> User, chat |-> User, args |-> a]] :
        k \in UpdateKinds, a \in ArgChoices}

\* the pages the source serves while the bot runs, and how a GET can end
DocZero ==
    <<LayoutTable,
      [bgcolor |-> RateTableColor,
       rows |-> <<HeaderRow,
                  DataRow(USD, RateZero, <<>>),
                  DataRow(NameEUR, Rate82488, Time1)>>]>>
BotPages == {Docs[d] : d \in DOMAIN Docs} \cup {DocZero}
HttpChoices == {"ok", "timeout"}

BotInit ==
    /\ env = None
    /\ phase = "running"
    /\ settings = SettingsInit(env)
    /\ CACHE_TTL = CacheTtlOf(settings)
    /\ now = 0
    /\ cache = None
    /\ handler = None
    /\ pc = [p \in Callers |-> "idle"]
    /\ result = [p \in Callers |-> None]
    /\ installs = {}
    /\ names \in NameChoices
    /\ page \in BotPages
    /\ stage = "boot"
    /\ fetched = None
    /\ answer = None
    /\ redact \in BOOLEAN
    /\ exchange_rate_cache = EmptyDict
    /\ update = None
    /\ logged = None
    /\ sent = <<>>
    /\ response = None
    /\ calls = <<>>

\* initialize_app: await _preload_exchange_rate_data()
Preload(h) ==
    /\ stage = "boot"
    /\ LET f == CachedCall(cache, h)
       IN  /\ cache' = f.cache
           /\ handler' = IF f.wrote THEN TimerFor(CACHE_TTL) ELSE handler
           /\ fetched' = Some([http |-> h, res |-> f.res])
           /\ exchange_rate_cache' = Preloaded(f)
    /\ stage' = "serve"
    /\ UNCHANGED <<env, phase, settings, CACHE_TTL, now, pc, result, installs>>
    /\ UNCHANGED <<names, page, answer>>
    /\ UNCHANGED <<redact, update, logged, sent, response, calls>>

\* telegram_webhook(request), the request carrying update u, up to feed_update
Receive(u) ==
    /\ stage = "serve"
    /\ update' = Some(u)
    /\ logged' = Some(sanitize_user_data(u))
    /\ sent' = <<>>
    /\ response' = None
    /\ calls' = <<>>
    /\ stage' = "handle"
    /\ UNCHANGED cacheVars
    /\ UNCHANGED <<names, page, fetched, answer>>
    /\ UNCHANGED <<redact, exchange_rate_cache>>

\* the handler's next call of fetch_and_parse_rate_data; a miss does a GET
\* that ends as h
Call(h) ==
    /\ stage = "handle"
    /\ feed_update(update[1]).need
    /\ LET f == CachedCall(cache, h)
       IN  /\ calls' = Append(calls, f.res)
           /\ cache' = f.cache
           /\ handler' = IF f.wrote THEN TimerFor(CACHE_TTL) ELSE handler
    /\ UNCHANGED <<env, phase, settings, CACHE_TTL, now, pc, result, installs>>
    /\ UNCHANGED rateVars
    /\ UNCHANGED <<redact, exchange_rate_cache, update, logged, sent, response>>

\* the handler ends and telegram_webhook returns
Respond ==
    /\ stage = "handle"
    /\ LET e == feed_update(update[1])
       IN  /\ ~e.need
           /\ sent' = e.sent
           /\ response' = Some([status |-> WebhookEnds(e.raised), raised |-> e.raised])
    /\ stage' = "serve"
    /\ UNCHANGED cacheVars
    /\ UNCHANGED <<names, page, fetched, answer>>
    /\ UNCHANGED <<redact, exchange_rate_cache, update, logged, calls>>

\* the entry's TTL runs out: the call_later timer deletes it
TtlEnds ==
    /\ stage \in {"serve", "handle"}
    /\ handler # None
    /\ cache' = None
    /\ handler' = None
    /\ UNCHANGED <<env, phase, settings, CACHE_TTL, now, pc, result, installs>>
    /\ UNCHANGED <<rateVars, botVars>>

BotNext ==
    \/ \E h \in HttpChoices : Preload(h)
    \/ \E u \in Updates : Receive(u)
    \/ \E h \in HttpChoices : Call(h)
    \/ Respond
    \/ TtlEnds

BotSpec == BotInit /\ [][BotNext]_vars

(***************************************************************************)
(* Properties.                                                             *)
(***************************************************************************)
Fetching == {p \in Callers : pc[p] = "fetching"}

\* caller p's call returns from the cache in this step
Hit(p) == Lookup(p) /\ cache # None

\* caller p's GET ends and its call returns or raises in this step
Finishes(p) == pc[p] = "fetching" /\ pc'[p] = "idle"

\* the call's outcome as the caller sees it
Got(p) == result[p][1]

\* C1: at most one fetch+parse is in flight at any time.
C1_SingleFlight == Cardinality(Fetching) <= 1

\* C2: a call made while an entry exists returns is_cached = True and
\* next_update = the entry's expiry time.
C2_HitReportsCacheAndExpiry ==
    [][\A p \in Callers :
          Hit(p) => /\ Got(p)'.value[2] = Some(TRUE)
                    /\ Got(p)'.value[3] = handler]_vars

\* C3: a call that fetches and parses successfully installs an entry expiring
\* at now + TTL and returns is_cached = False and next_update = now + TTL.
C3_MissInstallsAndReportsFresh ==
    [][\A p \in Callers :
          (Finishes(p) /\ Got(p)'.kind = "return") =>
              /\ cache' = Some(Got(p)'.value)
              /\ handler' = Some(now + CACHE_TTL)
              /\ Got(p)'.value[2] = Some(FALSE)
              /\ Got(p)'.value[3] = Some(now + CACHE_TTL)]_vars

\* C4: from the installation of a table until TTL later, every lookup returns
\* exactly that table and starts no fetch.
C4_SameTableUntilExpiry ==
    [][\A p \in Callers :
          Hit(p) => /\ pc'[p] = "idle"
                    /\ \A i \in Live(installs) : Got(p)'.value[1] = i.data]_vars

\* The GET outcomes that are failures of the fetch or of the parse: timeout,
\* non-2xx status, network error, no rate table, no rows, a required column missing.
StructureMissing(doc) ==
    \/ FindRateTable(doc) = None
    \/ LET t == FindRateTable(doc)[1]
       IN  \/ t.rows = <<>>
           \/ \E h \in {HdrCurrencyName, HdrCashSelling, HdrPubTime} :
                 \A i \in 1..Len(t.rows[1].th) : Strip(t.rows[1].th[i]) # h

FailedOutcomes ==
    {o \in Outcomes : o.http \in HttpFailures \/ (o.http = "ok" /\ StructureMissing(Docs[o.doc]))}

\* C5: when the fetch or the parse fails the caller gets an error and the call
\* writes nothing to the cache (entry and timer are as before the step); no
\* failure is stored, so with no entry an idle caller's next lookup never
\* returns at once: it fetches.
C5_FailureLeavesCache ==
    [][\A p \in Callers :
          /\ (Finishes(p) /\ Got(p)'.outcome \in FailedOutcomes) =>
                 /\ Got(p)'.kind = "raise"
                 /\ cache' = cache
                 /\ handler' = handler
          /\ (Lookup(p) /\ cache = None) => (pc'[p] = "fetching" /\ result'[p] = None)]_vars

\* C5 witness: a call has failed on a missing column while an entry written
\* by another caller is still in the cache.
C5_Witness ==
    \E p, q \in Callers :
        /\ result[p] # None /\ Got(p).kind = "raise" /\ Got(p).outcome.doc = "noColumn"
        /\ result[q] # None /\ Got(q).kind = "return" /\ ~Got(q).hit
        /\ cache = Some(Got(q).value)

\* C6: the cache never holds an entry whose currencies mapping is empty.
C6_NoEmptyEntry == cache # None => DOMAIN cache[1][1].currencies # {}

\* C7: a fetch starts only in a lookup that finds no entry; it starts neither
\* in a step that moves the clock or deletes the entry, nor in a lookup that
\* finds an entry.
C7_FetchOnlyOnMiss ==
    [][\A p \in Callers :
          /\ (pc[p] = "idle" /\ pc'[p] = "fetching") =>
                 (cache = None /\ now' = now /\ cache' = cache /\ handler' = handler)
          /\ Hit(p) => pc' = pc]_vars

\* C7 witness: a caller is fetching, no entry is in the cache, and another
\* caller was earlier served from an entry that has since expired.
C7_Witness ==
    \E p, q \in Callers :
        /\ pc[p] = "fetching" /\ cache = None
        /\ result[q] # None /\ Got(q).hit

\* C8: while an entry is in the cache no call raises.
C8_NoErrorWhileEntry ==
    [][\A p \in Callers :
          (Finishes(p) /\ Got(p)'.kind = "raise") => cache = None]_vars

\* C9: a configured cache duration <= 0 is rejected at import: the
\* application never runs with it.
C9_NonPositiveRejected == phase = "running" => settings.CACHE_TIMEOUT > 0

\* C10: the TTL of the cache is the configured cache duration in seconds.
C10_TtlIsConfigured ==
    phase = "running" => CACHE_TTL = settings.CACHE_TIMEOUT * SecondsPerMinute

(***************************************************************************)
(* Properties of get_exchange_rate and of the parser (RateSpec).           *)
(***************************************************************************)
\* the first call is over; what was asked and what it returned
Asked == answer # <<>>
From == answer[1].from
To == answer[1].to
Ret == answer[1].gave.ret
Log == answer[1].gave.log

\* the fetch of the call returned a table with at least one rate
TableOk ==
    /\ fetched # None
    /\ fetched[1].res.kind = "return"
    /\ DOMAIN fetched[1].res.value[1].currencies # {}

Table == fetched[1].res.value[1].currencies

\* the lookup of the specification: by code, else by the configured display name
Configured(c) == \E i \in 1..Len(names) : names[i][1] = c
Alias(c) == names[LastAt(names, 1, c)][2]
Resolvable(c) == Configured(c) /\ (c \in DOMAIN Table \/ Alias(c) \in DOMAIN Table)
LookupVal(c) == IF c \in DOMAIN Table THEN Table[c] ELSE Table[Alias(c)]

\* the call returned a tuple whose first element is a number
HasRate(r) == Len(r) = 3 /\ r[1] # None
RateOf(r) == r[1][1]

\* C11: to = CNY and a resolvable from currency: the rate is lookup(from) / 100
\* (r = n/d, lookup = m / 10^e: n * 100 * 10^e = m * d).
C11_ToCnyRate ==
    (Asked /\ TableOk /\ To = CNY /\ Configured(CNY) /\ Resolvable(From)) =>
        /\ HasRate(Ret)
        /\ RateOf(Ret).n * 100 * Pow10(LookupVal(From).e) = LookupVal(From).m * RateOf(Ret).d

\* C11 witness: with USD = 727.67 in the table the USD to CNY rate is 7.2767.
C11_Witness ==
    /\ Asked /\ TableOk /\ From = USD /\ To = CNY
    /\ USD \in DOMAIN Table /\ Table[USD] = [m |-> 72767, e |-> 2]
    /\ Ret[1] = Some([n |-> 72767, d |-> 10000])

\* C12: from = CNY and a resolvable to currency other than CNY (whose quoted
\* rate is not 0, so that the quotient exists): the rate is 100 / lookup(to)
\* (r = n/d, lookup = m / 10^e: n * m = 100 * 10^e * d).
C12_FromCnyRate ==
    (Asked /\ TableOk /\ From = CNY /\ To # CNY /\ Configured(CNY) /\ Resolvable(To)
       /\ LookupVal(To).m # 0) =>
        /\ HasRate(Ret)
        /\ RateOf(Ret).n * LookupVal(To).m = 100 * Pow10(LookupVal(To).e) * RateOf(Ret).d

\* C12 witness: CNY to USD with USD = 727.67 gives 100 / 727.67 = 10000 / 72767.
C12_Witness ==
    /\ Asked /\ TableOk /\ From = CNY /\ To = USD
    /\ USD \in DOMAIN Table /\ Table[USD] = [m |-> 72767, e |-> 2]
    /\ Ret[1] = Some([n |-> 10000, d |-> 72767])

\* C13: neither currency is CNY and both resolve (the from rate not 0, so that
\* the quotient exists): the rate is lookup(to) / lookup(from).
C13_CrossRate ==
    (Asked /\ TableOk /\ From # CNY /\ To # CNY /\ Resolvable(From) /\ Resolvable(To)
       /\ LookupVal(From).m # 0) =>
        /\ HasRate(Ret)
        /\ RateOf(Ret) = Frac(LookupVal(To).m * Pow10(LookupVal(From).e),
                              LookupVal(From).m * Pow10(LookupVal(To).e))

\* C13 witness: USD to EUR with USD = 727.67 and EUR = -5 gives -500 / 72767.
C13_Witness ==
    /\ Asked /\ TableOk /\ From = USD /\ To = EUR
    /\ Resolvable(USD) /\ Resolvable(EUR)
    /\ LookupVal(USD) = [m |-> 72767, e |-> 2] /\ LookupVal(EUR) = [m |-> -5, e |-> 0]
    /\ Ret[1] = Some([n |-> -500, d |-> 72767])

\* C14: the rate from X to X is 1 for every code X that resolves, and for CNY.
C14_IdentityRate ==
    (Asked /\ TableOk /\ From = To /\ Configured(From) /\ (From = CNY \/ Resolvable(From))) =>
        (HasRate(Ret) /\ RateOf(Ret) = [n |-> 1, d |-> 1])

\* C15: for two resolvable non-base currencies A and B and one table,
\* rate(A, B) * rate(B, A) = 1.
C15_Reciprocal ==
    (stage = "back" /\ TableOk /\ From # To /\ From # CNY /\ To # CNY
       /\ Resolvable(From) /\ Resolvable(To)) =>
        /\ HasRate(answer[1].gave.ret)
        /\ HasRate(answer[2].gave.ret)
        /\ RateOf(answer[1].gave.ret).n * RateOf(answer[2].gave.ret).n
             = RateOf(answer[1].gave.ret).d * RateOf(answer[2].gave.ret).d

\* the currencies whose table rate the conversion uses
Used == IF To = CNY THEN {From} ELSE IF From = CNY THEN {To} ELSE {From, To}

\* C16: the rate of a currency is the table entry under its code and, only if
\* there is none, the entry under its configured display name; a currency
\* with an entry under neither key makes the request fail with a
\* rate-not-found error that names that currency.  (Stated on conversions to
\* CNY for the value, on all conversions for the failure.)
C16_LookupOrder ==
    (Asked /\ TableOk /\ Configured(From) /\ Configured(To)) =>
        /\ (To = CNY /\ From \in DOMAIN Table) =>
               /\ HasRate(Ret)
               /\ RateOf(Ret).n * 100 * Pow10(Table[From].e) = Table[From].m * RateOf(Ret).d
        /\ (To = CNY /\ From \notin DOMAIN Table /\ Alias(From) \in DOMAIN Table) =>
               /\ HasRate(Ret)
               /\ RateOf(Ret).n * 100 * Pow10(Table[Alias(From)].e)
                    = Table[Alias(From)].m * RateOf(Ret).d
        /\ (\E c \in Used : ~Resolvable(c)) =>
               /\ ~HasRate(Ret)
               /\ Log.what = "Could not find rate for"
               /\ \E c \in Used : ~Resolvable(c) /\ Log.who = <<c>>

\* C16 witness: USD has no entry under its code, only under its display name,
\* and the conversion to CNY still gives 7.2767.
C16_Witness ==
    /\ Asked /\ TableOk /\ From = USD /\ To = CNY
    /\ USD \notin DOMAIN Table /\ NameUSD \in DOMAIN Table
    /\ Ret[1] = Some([n |-> 72767, d |-> 10000])

\* C17: when a table rate the conversion uses is zero or negative, no numeric
\* rate is returned.
C17_NonPositiveRejected ==
    (Asked /\ TableOk /\ Configured(From) /\ Configured(To)
       /\ (\A c \in Used : Resolvable(c)) /\ (\E c \in Used : LookupVal(c).m <= 0)) =>
        ~HasRate(Ret)

\* C18: every call returns a 3-tuple.
C18_AlwaysTriple == Asked => Len(Ret) = 3

\* the header row of the page's rate table, and the required columns it lacks
PageHeader == page[2].rows[1].th
PageRows == Tail(page[2].rows)
Lacking == {h \in {HdrCurrencyName, HdrCashSelling, HdrPubTime} :
               \A i \in 1..Len(PageHeader) : Strip(PageHeader[i]) # h}

\* C19: a document whose header lacks one of the three required columns fails
\* as a whole: the fetch raises and the call gives no rate.
C19_MissingColumnFails ==
    (fetched # None /\ fetched[1].http = "ok" /\ Lacking # {}) =>
        /\ fetched[1].res.kind = "raise"
        /\ Asked => ~HasRate(Ret)

\* C19 witness: the publication-time column is missing and the data rows are
\* all well formed.
C19_Witness ==
    /\ fetched # None /\ fetched[1].http = "ok" /\ Lacking = {HdrPubTime}
    /\ PageRows = <<DataRow(NameUSD, Rate72767, Time1), DataRow(NameJPY, Rate502, Time2)>>
    /\ fetched[1].res.kind = "raise"

\* the data rows with enough cells, a currency name and a numeric rate
\* (the columns of the full header: name first, rate third)
GoodRows ==
    {i \in 1..Len(PageRows) :
        /\ Len(PageRows[i].td) >= 3
        /\ Strip(PageRows[i].td[1]) # <<>>
        /\ FloatOk(PageRows[i].td[3])}
GoodNames == {Strip(PageRows[i].td[1]) : i \in GoodRows}

\* C20: rows with a non-numeric rate or too few cells are skipped without
\* failing the parse: the result holds the currencies of the rows with a
\* numeric rate (each under its name, and under no key that is not such a
\* name or the code configured for it).
C20_BadRowsSkipped ==
    (fetched # None /\ fetched[1].http = "ok" /\ Lacking = {}) =>
        /\ fetched[1].res.kind = "return"
        /\ LET keys == DOMAIN fetched[1].res.value[1].currencies
           IN  /\ GoodNames \subseteq keys
               /\ \A k \in keys :
                     \/ k \in GoodNames
                     \/ \E i \in 1..Len(names) : names[i][1] = k /\ names[i][2] \in GoodNames

\* C20 witness: three rows, the second with a non-numeric rate; the result
\* holds the two others.
C20_Witness ==
    /\ fetched # None /\ fetched[1].http = "ok" /\ Lacking = {}
    /\ PageRows = <<DataRow(NameUSD, Rate72767, Time1),
                    DataRow(NameEUR, RateNA, Time2),
                    DataRow(NameJPY, Rate502, Time2)>>
    /\ names = NamesStd
    /\ DOMAIN fetched[1].res.value[1].currencies = {USD, NameUSD, NameJPY}

\* the page was fetched and has the three required columns
Parsed == fetched # None /\ fetched[1].http = "ok" /\ Lacking = {}
LastUpdated == fetched[1].res.value[1].last_updated

\* the rows the loop does not skip (enough cells, a currency name) that have
\* a non-empty publication-time cell
Timed ==
    {i \in 1..Len(PageRows) :
        /\ Len(PageRows[i].td) >= 4
        /\ Strip(PageRows[i].td[1]) # <<>>
        /\ Strip(PageRows[i].td[4]) # <<>>}

\* C21: last_updated is the first non-empty publication-time cell of the data
\* rows in order; rows with an empty cell are passed over.  (Where no row has
\* a non-empty cell, either no value or the empty text is accepted.)
C21_FirstNonEmptyPubTime ==
    Parsed =>
        IF Timed = {}
        THEN LastUpdated \in {None, Some(<<>>)}
        ELSE LastUpdated =
                 Some(Strip(PageRows[CHOOSE i \in Timed : \A j \in Timed : i <= j].td[4]))

\* the keys a good row is stored under, and its value
KeysOf(i) ==
    LET name == Strip(PageRows[i].td[1])
    IN  {name} \cup {names[k][1] : k \in {k \in 1..Len(names) :
                                          /\ names[k][2] = name
                                          /\ \A l \in (k + 1)..Len(names) : names[l][2] # name}}
ValOf(i) == FloatVal(Strip(PageRows[i].td[3]))
Stands(i) == \A j \in GoodRows : j > i => KeysOf(j) \cap KeysOf(i) = {}

\* C22: each parsed rate is stored under its display name, and under the
\* currency code exactly when the name-to-code mapping has that display
\* name, both keys with the same value; a name without a mapping is stored
\* under the name only.  (Stated on the result: its keys are exactly those of
\* the rows with a rate, and each row no later row writes over holds its
\* value under each of its keys.)
C22_StoredByNameAndCode ==
    Parsed =>
        /\ DOMAIN fetched[1].res.value[1].currencies = UNION {KeysOf(i) : i \in GoodRows}
        /\ \A i \in GoodRows : Stands(i) =>
               \A k \in KeysOf(i) : fetched[1].res.value[1].currencies[k] = ValOf(i)

\* C22 witness: a mapped name is under name and code with one value, an
\* unmapped name under the name only.
C22_Witness ==
    /\ Parsed /\ names = NamesStd
    /\ PageRows = <<DataRow(NameUSD, Rate72767, Time1), DataRow(NameJPY, Rate502, Time2)>>
    /\ fetched[1].res.value[1].currencies =
           [k \in {USD, NameUSD, NameJPY} |->
               IF k = NameJPY THEN [m |-> 502, e |-> 2] ELSE [m |-> 72767, e |-> 2]]

\* the last update went to a command handler; its text, split
Handled == update # None /\ stage = "serve" /\ Routed(update[1])
Args == update[1].body.args

\* the amount the last command gave is a number and is not positive
AmountNotPositive ==
    \/ /\ Args[1] = CmdConvert /\ Len(Args) >= 4
       /\ FloatOk(Args[4]) /\ FloatVal(Args[4]).m <= 0
    \/ /\ Args[1] = CmdCnyConvert /\ Len(Args) >= 3
       /\ FloatOk(Args[3]) /\ FloatVal(Args[3]).m <= 0

\* C23: convert_command and cny_convert_command called with an amount <= 0
\* send no conversion result: they reply with the invalid-amount message.
C23_AmountChecked ==
    (Handled /\ AmountNotPositive) => sent = <<Msg("invalid amount", None)>>

\* C24: when the rate data is obtained (fetched or from the cache) and is
\* not empty, rate_command replies with the rates message and not with an
\* error message.
C24_RateReplies ==
    (Handled /\ Args[1] = CmdRate /\ calls[1].kind = "return"
       /\ DOMAIN calls[1].value[1].currencies # {}) =>
        (Len(sent) = 1 /\ sent[1].kind = "rates")

\* C25: after a startup preload with a successful fetch and parse,
\* get_cached_exchange_data() returns the preloaded data and not the initial
\* empty mapping.
C25_PreloadKept ==
    (stage = "serve" /\ fetched # None /\ fetched[1].res.kind = "return"
       /\ DOMAIN fetched[1].res.value[1].currencies # {}) =>
        exchange_rate_cache # EmptyDict

\* C26: with REDACT_USER_DATA enabled the logged update holds no original
\* user id and no original first_name, whatever the type of the update.
C26_NoUserDataLogged ==
    (redact /\ logged # None) =>
        /\ logged[1].body.from_user.id # UserId
        /\ logged[1].body.from_user.first_name # FirstName
        /\ logged[1].body.chat.id # UserId
        /\ logged[1].body.chat.first_name # FirstName

\* C27: every invocation of a command handler sends exactly one message.
C27_ExactlyOneMessage == Handled => Len(sent) = 1

\* C28: telegram_webhook returns {"status": "success"} for every update, also
\* when the dispatcher or a handler raised while processing it.
C28_AlwaysSuccess == response # None => response[1].status = "success"

\* C28 witness: a handler raised and the request still ended in success.
C28_Witness ==
    /\ Handled /\ response # None
    /\ response[1].raised /\ response[1].status = "success"

====
